---------------------------- MODULE Spec2Model ----------------------------
(***************************************************************************)
(* Homebox maintenance reminder service (src/app.py): the due-date         *)
(* evaluator is_due, the sqlite ledger sent_reminders with its operations  *)
(* (init_db, get_last_notified, mark_notified, reset_reminder,             *)
(* prune_old_entries), the poll cycle filter_and_notify and the service    *)
(* start-up and loop.                                                      *)
(*                                                                         *)
(* Text is modelled by TLA+ strings, calendar dates by their proleptic     *)
(* Gregorian ordinal (datetime.date.toordinal), and the ledger column      *)
(* last_notified by the ISO text that date.isoformat() produces, compared  *)
(* the way sqlite compares text (byte by byte).                            *)
(***************************************************************************)
EXTENDS Integers, Sequences, FiniteSets, TLC

VARIABLES
    clock,          \* the UTC calendar date, as an ordinal (datetime.now(timezone.utc).date())
    cfg,            \* REMIND_START_DAYS_BEFORE, REMIND_END_DAYS_AFTER, REMIND_REPEAT_DAYS,
                    \* REMIND_RETENTION_DAYS, RUN_ONCE
    db,             \* the sqlite file at DB_PATH: schema created?, rows of sent_reminders
    pc,             \* position of the service process
    entries,        \* the batch fetch_scheduled_maintenance returned to main_loop
    today,          \* filter_and_notify's local `today` (ISO text)
    idx,            \* position of the running for loop of filter_and_notify (1-based)
    to_notify,      \* filter_and_notify's local list of (eid, entry)
    delivery,       \* what became of this cycle's notify() call: "none", "sent", "failed"
    marked,         \* keys mark_notified was called with in this cycle
    sent,           \* per key: notify() calls that carried it on the current calendar date
    faulted,        \* a ledger read or write has failed, or a manual reset was issued
    runClean,       \* this cycle: no ledger call failed, no reset, and the date did not change
    prevNotified,   \* entries of the previous cycle's notify set, kept while the next cycle repeats it
    writeFailed,    \* keys whose latest mark_notified call of the latest commit loop failed, each with
                    \* whether its record held `today` then; kept until the next cycle of that date has scanned
    last,           \* the latest call of the running cycle (of the harness) that can fail: operation, key, outcome
    pre,            \* ledger harness: the rows before the latest call, its argument and what it returned
    due             \* evaluator harness: <<>> or the result of the latest is_due call

vars == <<clock, cfg, db, pc, entries, today, idx, to_notify, delivery, marked,
          sent, faulted, runClean, prevNotified, writeFailed, last, pre, due>>

---------------------------------------------------------------------------
(* Bounds of the model *)

\* calendar dates the service clock can advance past FirstDay
MaxDays == 1
\* calendar dates the clock of the ledger harness can advance past FirstDay
MaxLedgerDays == 2
\* largest REMIND_START_DAYS_BEFORE / REMIND_END_DAYS_AFTER / REMIND_REPEAT_DAYS of the evaluator harness
MaxWindow == 3
\* days before and after the scheduled date on which the evaluator harness asks is_due
MaxSpan == 4
\* saturation of the per-day notification counter
MaxSent == 2

---------------------------------------------------------------------------
(* Python values *)

\* Python's None (JSON null, dict.get of a missing key)
None == "<None>"

\* bool(v) of an optional string: None and "" are falsy
Truthy(v) == v # None /\ v # ""

\* `a or b`
Or(a, b) == IF Truthy(a) THEN a ELSE b

\* entry.get(field)
Get(e, field) == IF field \in DOMAIN e THEN e[field] ELSE None

\* entry.get(field, default)
GetDefault(e, field, default) == IF field \in DOMAIN e THEN e[field] ELSE default

\* one character of a string
Char(s, i) == SubSeq(s, i, i)

IsSpace(c) == c \in {" ", "\t", "\n"}

RECURSIVE LStrip(_)
LStrip(s) == IF Len(s) > 0 /\ IsSpace(Char(s, 1)) THEN LStrip(SubSeq(s, 2, Len(s))) ELSE s

RECURSIVE RStrip(_)
RStrip(s) == IF Len(s) > 0 /\ IsSpace(Char(s, Len(s))) THEN RStrip(SubSeq(s, 1, Len(s) - 1)) ELSE s

\* str.strip()
Strip(s) == RStrip(LStrip(s))

---------------------------------------------------------------------------
(* Calendar: datetime.date, timedelta, isoformat, dateutil's parse *)

IsLeap(y) == (y % 4 = 0 /\ y % 100 # 0) \/ y % 400 = 0

DaysInMonth(y, m) ==
    IF m = 2 THEN (IF IsLeap(y) THEN 29 ELSE 28)
    ELSE IF m \in {4, 6, 9, 11} THEN 30 ELSE 31

DaysBeforeYear(y) == (y - 1) * 365 + (y - 1) \div 4 - (y - 1) \div 100 + (y - 1) \div 400

RECURSIVE DaysBeforeMonth(_, _)
DaysBeforeMonth(y, m) == IF m <= 1 THEN 0 ELSE DaysBeforeMonth(y, m - 1) + DaysInMonth(y, m - 1)

\* date(y, m, d).toordinal()
DateOrdinal(y, m, d) == DaysBeforeYear(y) + DaysBeforeMonth(y, m) + d

YearOf(n) ==
    CHOOSE y \in (n \div 366)..(n \div 365 + 1) :
        DaysBeforeYear(y) < n /\ n <= DaysBeforeYear(y + 1)

MonthOf(n) ==
    LET y == YearOf(n)
        r == n - DaysBeforeYear(y)
    IN  CHOOSE m \in 1..12 : DaysBeforeMonth(y, m) < r /\ r <= DaysBeforeMonth(y, m) + DaysInMonth(y, m)

DayOf(n) == n - DaysBeforeYear(YearOf(n)) - DaysBeforeMonth(YearOf(n), MonthOf(n))

Digits == "0123456789"

DigitStr(d) == Char(Digits, d + 1)

IsDigit(c) == \E d \in 0..9 : DigitStr(d) = c

DigitVal(c) == CHOOSE d \in 0..9 : DigitStr(d) = c

Pad2(n) == DigitStr(n \div 10) \o DigitStr(n % 10)

Pad4(n) == Pad2(n \div 100) \o Pad2(n % 100)

\* date.isoformat(): YYYY-MM-DD
isoformat(n) == Pad4(YearOf(n)) \o "-" \o Pad2(MonthOf(n)) \o "-" \o Pad2(DayOf(n))

AllDigits(s) == \A i \in 1..Len(s) : IsDigit(Char(s, i))

RECURSIVE NumVal(_)
NumVal(s) == IF Len(s) = 0 THEN 0 ELSE 10 * NumVal(SubSeq(s, 1, Len(s) - 1)) + DigitVal(Char(s, Len(s)))

\* the outcome of a parse that raised
ParseError == -1

\* dateparser.parse(s).date() on the texts the data source sends: an ISO date,
\* alone or followed by a T and a time of day; anything else raises
ParseDate(s) ==
    IF /\ Len(s) >= 10
       /\ AllDigits(SubSeq(s, 1, 4)) /\ Char(s, 5) = "-"
       /\ AllDigits(SubSeq(s, 6, 7)) /\ Char(s, 8) = "-"
       /\ AllDigits(SubSeq(s, 9, 10))
       /\ (Len(s) = 10 \/ Char(s, 11) = "T")
    THEN LET y == NumVal(SubSeq(s, 1, 4))
             m == NumVal(SubSeq(s, 6, 7))
             d == NumVal(SubSeq(s, 9, 10))
         IN  IF y >= 1 /\ m \in 1..12 /\ d >= 1 /\ d <= DaysInMonth(y, m)
             THEN DateOrdinal(y, m, d)
             ELSE ParseError
    ELSE ParseError

\* sqlite's byte order on the characters of an ISO date
CharCode(c) == IF c = "-" THEN 0 ELSE 1 + DigitVal(c)

\* a <= b as sqlite compares two TEXT values (memcmp, then length)
RECURSIVE TextLeq(_, _)
TextLeq(a, b) ==
    IF Len(a) = 0 THEN TRUE
    ELSE IF Len(b) = 0 THEN FALSE
    ELSE IF Char(a, 1) = Char(b, 1) THEN TextLeq(SubSeq(a, 2, Len(a)), SubSeq(b, 2, Len(b)))
    ELSE CharCode(Char(a, 1)) < CharCode(Char(b, 1))

---------------------------------------------------------------------------
(* Due-date evaluator *)

\* is_due: `if comp:` ... parse succeeds -> return False
CompletedIgnored(comp) == FALSE
Completed(comp) == Truthy(comp) /\ ParseDate(comp) # ParseError

\* is_due: the negation of `today < start_date or today > end_date`
InWindowOpenEnd(t, start_date, end_date) == ~(t < start_date \/ t >= end_date)
InWindow(t, start_date, end_date) == ~(t < start_date \/ t > end_date)

\* is_due: (delta_days % REMIND_REPEAT_DAYS) == 0
OnCadenceFromOne(delta_days, repeat) == ((delta_days + 1) % repeat) = 0
OnCadence(delta_days, repeat) == (delta_days % repeat) = 0

\* is_due(entry), with the clock value it reads and the settings it uses
is_due(entry, now, c) ==
    LET sched == Or(Get(entry, "scheduledDate"), Get(entry, "scheduled_date"))
        comp  == Or(Or(Get(entry, "completedDate"), Get(entry, "date")), Get(entry, "completed_date"))
    IN  IF ~Truthy(sched) THEN FALSE
        ELSE IF ParseDate(sched) = ParseError THEN FALSE
        ELSE IF Completed(comp) THEN FALSE
        ELSE LET sd         == ParseDate(sched)
                 start_date == sd - c.start
                 end_date   == sd + c.end
             IN  IF ~InWindow(now, start_date, end_date) THEN FALSE
                 ELSE IF c.repeat <= 0 THEN start_date <= now /\ now <= end_date
                 ELSE OnCadence(now - start_date, c.repeat)

---------------------------------------------------------------------------
(* Ledger store: the sqlite table sent_reminders(id TEXT PRIMARY KEY,       *)
(* last_notified DATE). d.table: the table exists; d.rows: its rows.        *)
(* Every operation opens its own connection; io says whether connecting and *)
(* the statements of that call succeed. When they do not, the call raises   *)
(* inside its try block and the handler prints and returns. An admin        *)
(* command runs init_db and its operation back to back under one io.        *)

\* the statements of a call on sent_reminders succeed
Usable(d, io) == io /\ d.table

\* init_db: CREATE TABLE IF NOT EXISTS; a failure is printed and swallowed
init_db(d, io) == IF io THEN [d EXCEPT !.table = TRUE] ELSE d

\* get_last_notified: the row's last_notified, None when there is no row or the call raised
get_last_notified_stale(d, entry_id, io) ==
    IF \E r \in d.rows : r.id = entry_id
    THEN (CHOOSE r \in d.rows : r.id = entry_id).last_notified
    ELSE None
get_last_notified(d, entry_id, io) ==
    IF Usable(d, io) /\ \E r \in d.rows : r.id = entry_id
    THEN (CHOOSE r \in d.rows : r.id = entry_id).last_notified
    ELSE None

\* INSERT ... ON CONFLICT(id) DO UPDATE SET last_notified = excluded.last_notified
UpsertKeepsOld(rows, entry_id, when) ==
    IF \E r \in rows : r.id = entry_id
    THEN rows
    ELSE rows \cup {[id |-> entry_id, last_notified |-> when]}
UpsertAppends(rows, entry_id, when) == rows \cup {[id |-> entry_id, last_notified |-> when]}
Upsert(rows, entry_id, when) ==
    IF \E r \in rows : r.id = entry_id
    THEN {IF r.id = entry_id THEN [r EXCEPT !.last_notified = when] ELSE r : r \in rows}
    ELSE rows \cup {[id |-> entry_id, last_notified |-> when]}

\* mark_notified: the ledger after the call (unchanged when the call raised)
mark_notified_dropped(d, entry_id, when, io) == d
mark_notified_half_done(d, entry_id, when, io) ==
    IF d.table THEN [d EXCEPT !.rows = Upsert(d.rows, entry_id, when)] ELSE d
mark_notified_all_rows(d, entry_id, when, io) ==
    IF Usable(d, io)
    THEN [d EXCEPT !.rows = {[r EXCEPT !.last_notified = when] : r \in Upsert(d.rows, entry_id, when)}]
    ELSE d
mark_notified(d, entry_id, when, io) ==
    IF Usable(d, io) THEN [d EXCEPT !.rows = Upsert(d.rows, entry_id, when)] ELSE d

\* DELETE FROM sent_reminders [WHERE id = ?]
DeleteRows(rows, entry_id) ==
    IF entry_id = "all" THEN {} ELSE {r \in rows : r.id # entry_id}

\* reset_reminder: the ledger after the call and the returned flag
reset_reminder(d, entry_id, io) ==
    IF Usable(d, io)
    THEN [db |-> [d EXCEPT !.rows = DeleteRows(d.rows, entry_id)], ret |-> TRUE]
    ELSE [db |-> d, ret |-> FALSE]

\* DELETE FROM sent_reminders WHERE last_notified <= ?
PrunedStrict(rows, cutoff) == {r \in rows : TextLeq(r.last_notified, cutoff) /\ r.last_notified # cutoff}
Pruned(rows, cutoff) == {r \in rows : TextLeq(r.last_notified, cutoff)}

\* prune_old_entries: the ledger after the call and the returned count (cur.rowcount)
prune_old_entries_off_by_one(d, days, now, io) ==
    IF days <= 0 THEN [db |-> d, ret |-> 0]
    ELSE IF ~Usable(d, io) THEN [db |-> d, ret |-> 0]
    ELSE LET cutoff  == isoformat(now - (days - 1))
             deleted == Pruned(d.rows, cutoff)
         IN  [db |-> [d EXCEPT !.rows = d.rows \ deleted], ret |-> Cardinality(deleted)]
prune_old_entries(d, days, now, io) ==
    IF days <= 0 THEN [db |-> d, ret |-> 0]
    ELSE IF ~Usable(d, io) THEN [db |-> d, ret |-> 0]
    ELSE LET cutoff  == isoformat(now - days)
             deleted == Pruned(d.rows, cutoff)
         IN  [db |-> [d EXCEPT !.rows = d.rows \ deleted], ret |-> Cardinality(deleted)]

---------------------------------------------------------------------------
(* Poll cycle *)

\* filter_and_notify: the identity key of an entry
EntryKey(e) ==
    LET eid == Or(Or(Get(e, "id"), Get(e, "ID")), Get(e, "Id"))
    IN  IF ~Truthy(eid)
        THEN Strip(GetDefault(e, "name", "") \o "::"
                   \o Or(Or(Get(e, "scheduledDate"), Get(e, "scheduled_date")), ""))
        ELSE eid

\* filter_and_notify: `if last == today: continue`
AlreadyNotified(lastv, t) == lastv = t

---------------------------------------------------------------------------
(* The service and its environment *)

\* the first calendar date of a run of the model: two days before a month ends
FirstDay == DateOrdinal(2024, 6, 29)

\* what the data source can list: an entry with an id, and one without (keyed
\* by its name and date)
Pool ==
    { [id |-> "k1", name |-> "Filter", scheduledDate |-> isoformat(FirstDay + 1) \o "T00:00:00Z"],
      [name |-> " Oil", scheduledDate |-> isoformat(FirstDay + 1)] }

RECURSIVE SeqsUpTo(_, _)
SeqsUpTo(S, n) ==
    IF n = 0 THEN {<<>>}
    ELSE LET shorter == SeqsUpTo(S, n - 1)
         IN  shorter \cup {Append(q, x) : q \in shorter, x \in S}

\* the batches fetch_scheduled_maintenance can return: up to as many entries as
\* the pool holds, in any order, an entry possibly listed twice
Batches == SeqsUpTo(Pool, Cardinality(Pool))

\* settings the service is started with
Settings ==
    { [start |-> 0, end |-> 1, repeat |-> 0, retention |-> 1, run_once |-> FALSE],
      [start |-> 0, end |-> 1, repeat |-> 2, retention |-> 0, run_once |-> TRUE] }

\* arguments of the admin commands --reset and --prune
ResetArgs == {"k1", "all"}
PruneArgs == {0, 1}

NoCall == [op |-> "none", key |-> None, ok |-> TRUE]

NoPre == [rows |-> {}, arg |-> None, ret |-> None]

NoSent == [k \in {} |-> 0]

KeysOf(list) == {list[n][1] : n \in 1..Len(list)}

EntriesOf(list) == {list[n][2] : n \in 1..Len(list)}

\* one more notify() call carried each key of `keys` on the current date
Count(s, keys) ==
    [k \in DOMAIN s \cup keys |->
        IF k \in keys
        THEN (IF k \in DOMAIN s THEN (IF s[k] < MaxSent THEN s[k] + 1 ELSE s[k]) ELSE 1)
        ELSE s[k]]

Init ==
    /\ clock = FirstDay
    /\ cfg \in Settings
    /\ db = [table |-> FALSE, rows |-> {}]
    /\ pc = "start"
    /\ entries = <<>>
    /\ today = None
    /\ idx = 1
    /\ to_notify = <<>>
    /\ delivery = "none"
    /\ marked = {}
    /\ sent = NoSent
    /\ faulted = FALSE
    /\ runClean = FALSE
    /\ prevNotified = {}
    /\ writeFailed = {}
    /\ last = NoCall
    /\ pre = NoPre
    /\ due = <<>>

\* __main__ without an admin flag: init_db, the start-up pruning, then main_loop
Startup ==
    /\ pc = "start"
    /\ \E io1 \in BOOLEAN, io2 \in BOOLEAN :
        db' = IF cfg.retention > 0
              THEN prune_old_entries(init_db(db, io1), cfg.retention, clock, io2).db
              ELSE init_db(db, io1)
    /\ pc' = "loop"
    /\ UNCHANGED <<clock, cfg, entries, today, idx, to_notify, delivery, marked, sent,
                   faulted, runClean, prevNotified, writeFailed, last, pre, due>>

\* main_loop: fetch_scheduled_maintenance returned the decoded response
FetchOk ==
    /\ pc = "loop"
    /\ \E batch \in Batches : entries' = batch
    /\ pc' = "filter"
    /\ UNCHANGED <<clock, cfg, db, today, idx, to_notify, delivery, marked, sent,
                   faulted, runClean, prevNotified, writeFailed, last, pre, due>>

\* main_loop: fetch_scheduled_maintenance failed (unreachable, 401, status, JSON) and returned []
FetchFailRaises ==
    /\ pc = "loop"
    /\ entries' = <<>>
    /\ last' = [op |-> "fetch", key |-> None, ok |-> FALSE]
    /\ pc' = "done"
    /\ UNCHANGED <<clock, cfg, db, today, idx, to_notify, delivery, marked, sent,
                   faulted, runClean, prevNotified, writeFailed, pre, due>>
FetchFail ==
    /\ pc = "loop"
    /\ entries' = <<>>
    /\ last' = [op |-> "fetch", key |-> None, ok |-> FALSE]
    /\ pc' = "filter"
    /\ UNCHANGED <<clock, cfg, db, today, idx, to_notify, delivery, marked, sent,
                   faulted, runClean, prevNotified, writeFailed, pre, due>>

\* filter_and_notify, to the head of its for loop: init_db, today, to_notify = []
FilterStart ==
    /\ pc = "filter"
    /\ \E io \in BOOLEAN :
        /\ db' = init_db(db, io)
        /\ runClean' = io
        /\ prevNotified' = IF io THEN prevNotified ELSE {}
    /\ today' = isoformat(clock)
    /\ to_notify' = <<>>
    /\ idx' = 1
    /\ pc' = IF entries = <<>> THEN "sleep" ELSE "scan"
    /\ UNCHANGED <<clock, cfg, entries, delivery, marked, sent, faulted,
                   writeFailed, last, pre, due>>

\* filter_and_notify: one pass of `for e in entries`
ScanEntry ==
    /\ pc = "scan"
    /\ idx <= Len(entries)
    /\ \E io \in BOOLEAN :
        LET e     == entries[idx]
            eid   == EntryKey(e)
            isd   == is_due(e, clock, cfg)
            ok    == Usable(db, io)
            lastv == get_last_notified(db, eid, io)
            list  == IF isd /\ ~AlreadyNotified(lastv, today)
                     THEN Append(to_notify, <<eid, e>>)
                     ELSE to_notify
        IN  /\ to_notify' = list
            /\ last' = IF isd THEN [op |-> "get", key |-> eid, ok |-> ok] ELSE last
            /\ faulted' = (faulted \/ (isd /\ ~ok))
            /\ runClean' = (runClean /\ (isd => ok))
            /\ prevNotified' = IF isd /\ ~ok THEN {} ELSE prevNotified
            /\ pc' = IF idx < Len(entries) THEN "scan"
                     ELSE IF list = <<>> THEN "sleep" ELSE "notify"
    /\ idx' = idx + 1
    /\ UNCHANGED <<clock, cfg, db, entries, today, delivery, marked, sent,
                   writeFailed, pre, due>>

\* filter_and_notify: notify(message_entries); a failed delivery is caught inside notify
NotifyFailureEndsCycle ==
    /\ pc = "notify"
    /\ delivery' \in {"sent", "failed"}
    /\ sent' = Count(sent, KeysOf(to_notify))
    /\ idx' = 1
    /\ pc' = IF delivery' = "failed" THEN "sleep" ELSE "commit"
    /\ writeFailed' = {}
    /\ UNCHANGED <<clock, cfg, db, entries, today, to_notify, marked, faulted,
                   runClean, prevNotified, last, pre, due>>
Notify ==
    /\ pc = "notify"
    /\ delivery' \in {"sent", "failed"}
    /\ sent' = Count(sent, KeysOf(to_notify))
    /\ idx' = 1
    /\ pc' = "commit"
    /\ writeFailed' = {}
    /\ UNCHANGED <<clock, cfg, db, entries, today, to_notify, marked, faulted,
                   runClean, prevNotified, last, pre, due>>

\* filter_and_notify: one pass of `for eid, _ in to_notify: mark_notified(DB_PATH, eid, today)`
CommitEntry ==
    /\ pc = "commit"
    /\ idx <= Len(to_notify)
    /\ \E io \in BOOLEAN :
        LET eid == to_notify[idx][1]
            ok  == Usable(db, io)
        IN  /\ db' = mark_notified(db, eid, today, io)
            /\ marked' = marked \cup {eid}
            /\ last' = [op |-> "mark", key |-> eid, ok |-> ok]
            /\ faulted' = (faulted \/ ~ok)
            /\ runClean' = (runClean /\ ok)
            /\ prevNotified' = IF ok THEN prevNotified ELSE {}
            /\ writeFailed' =
                    {w \in writeFailed : w.key # eid}
                    \cup (IF ok THEN {}
                          ELSE {[key |-> eid, held |-> get_last_notified(db, eid, TRUE) = today]})
    /\ idx' = idx + 1
    /\ pc' = IF idx < Len(to_notify) THEN "commit" ELSE "sleep"
    /\ UNCHANGED <<clock, cfg, entries, today, to_notify, delivery, sent,
                   pre, due>>

\* main_loop: the cycle is over; break on RUN_ONCE, else sleep and loop
SleepLoopsOn ==
    /\ pc = "sleep"
    /\ pc' = "loop"
    /\ prevNotified' = IF runClean THEN EntriesOf(to_notify) ELSE {}
    /\ writeFailed' = IF to_notify = <<>> THEN {} ELSE writeFailed
    /\ to_notify' = <<>>
    /\ idx' = 1
    /\ delivery' = "none"
    /\ marked' = {}
    /\ last' = NoCall
    /\ entries' = <<>>
    /\ today' = None
    /\ UNCHANGED <<clock, cfg, db, sent, faulted, runClean,
                   pre, due>>
Sleep ==
    /\ pc = "sleep"
    /\ pc' = IF cfg.run_once THEN "done" ELSE "loop"
    /\ prevNotified' = IF runClean THEN EntriesOf(to_notify) ELSE {}
    /\ writeFailed' = IF to_notify = <<>> THEN {} ELSE writeFailed
    /\ to_notify' = <<>>
    /\ idx' = 1
    /\ delivery' = "none"
    /\ marked' = {}
    /\ last' = NoCall
    /\ entries' = <<>>
    /\ today' = None
    /\ UNCHANGED <<clock, cfg, db, sent, faulted, runClean,
                   pre, due>>

\* midnight UTC passes
Tick ==
    /\ clock < FirstDay + MaxDays
    /\ clock' = clock + 1
    /\ sent' = NoSent
    /\ runClean' = FALSE
    /\ prevNotified' = {}
    /\ writeFailed' = {}
    /\ UNCHANGED <<cfg, db, pc, entries, today, idx, to_notify, delivery, marked,
                   faulted, last, pre, due>>

\* __main__ --reset <id|all>, run beside the service: init_db, then reset_reminder
AdminReset ==
    /\ \E k \in ResetArgs, io \in BOOLEAN :
        db' = reset_reminder(init_db(db, io), k, io).db
    /\ faulted' = TRUE
    /\ runClean' = FALSE
    /\ prevNotified' = {}
    /\ UNCHANGED <<clock, cfg, pc, entries, today, idx, to_notify, delivery, marked,
                   sent, writeFailed, last, pre, due>>

\* __main__ --prune <N>, run beside the service: init_db, then prune_old_entries
AdminPrune ==
    /\ \E n \in PruneArgs, io \in BOOLEAN :
        db' = prune_old_entries(init_db(db, io), n, clock, io).db
    /\ UNCHANGED <<clock, cfg, pc, entries, today, idx, to_notify, delivery, marked,
                   sent, faulted, runClean, prevNotified, writeFailed, last, pre, due>>

Next ==
    \/ Startup
    \/ FetchOk
    \/ FetchFail
    \/ FilterStart
    \/ ScanEntry
    \/ Notify
    \/ CommitEntry
    \/ Sleep
    \/ Tick
    \/ AdminReset
    \/ AdminPrune

Spec == Init /\ [][Next]_vars

---------------------------------------------------------------------------
(* Evaluator harness: is_due on one entry, day after day *)

\* the scheduled date of the entries of the harness
ScenarioDay == DateOrdinal(2024, 6, 10)

NoFields == [k \in {} |-> None]

ScheduledFields ==
    { NoFields,
      "scheduledDate" :> "",
      "scheduledDate" :> "soon",
      "scheduledDate" :> "2024-02-30",
      "scheduledDate" :> isoformat(ScenarioDay),
      "scheduledDate" :> (isoformat(ScenarioDay + 1) \o "T00:00:00Z"),
      "scheduled_date" :> isoformat(ScenarioDay) }

CompletedFields ==
    { NoFields,
      "completedDate" :> "",
      "completedDate" :> "n/a",
      "completedDate" :> (isoformat(ScenarioDay - 1) \o "T09:30:00Z"),
      "date" :> isoformat(ScenarioDay + 2),
      "completed_date" :> isoformat(ScenarioDay) }

EvaluatorEntries == { ("id" :> "k1") @@ sf @@ cf : sf \in ScheduledFields, cf \in CompletedFields }

EvaluatorSettings ==
    [start : -1..MaxWindow, end : -1..MaxWindow, repeat : -1..MaxWindow,
     retention : {0}, run_once : {TRUE}]

InitIsDue ==
    /\ clock = ScenarioDay - MaxSpan
    /\ cfg \in EvaluatorSettings
    /\ db = [table |-> FALSE, rows |-> {}]
    /\ pc = "evaluator"
    /\ \E e \in EvaluatorEntries : entries = <<e>>
    /\ today = None
    /\ idx = 1
    /\ to_notify = <<>>
    /\ delivery = "none"
    /\ marked = {}
    /\ sent = NoSent
    /\ faulted = FALSE
    /\ runClean = FALSE
    /\ prevNotified = {}
    /\ writeFailed = {}
    /\ last = NoCall
    /\ pre = NoPre
    /\ due = <<>>

\* is_due(entry) is called on the current date
EvalIsDue ==
    /\ pc = "evaluator"
    /\ due = <<>>
    /\ due' = <<is_due(entries[1], clock, cfg)>>
    /\ UNCHANGED <<clock, cfg, db, pc, entries, today, idx, to_notify, delivery, marked,
                   sent, faulted, runClean, prevNotified, writeFailed, last, pre>>

\* the next date
EvalNextDay ==
    /\ pc = "evaluator"
    /\ due # <<>>
    /\ clock < ScenarioDay + MaxSpan
    /\ clock' = clock + 1
    /\ due' = <<>>
    /\ UNCHANGED <<cfg, db, pc, entries, today, idx, to_notify, delivery, marked,
                   sent, faulted, runClean, prevNotified, writeFailed, last, pre>>

NextIsDue ==
    \/ EvalIsDue
    \/ EvalNextDay

SpecIsDue == InitIsDue /\ [][NextIsDue]_vars

\* the harness's entry, its two date fields as is_due reads them
TheEntry == entries[1]
SchedOf(e) == Or(Get(e, "scheduledDate"), Get(e, "scheduled_date"))
CompOf(e) == Or(Or(Get(e, "completedDate"), Get(e, "date")), Get(e, "completed_date"))
SchedParsable(e) == Truthy(SchedOf(e)) /\ ParseDate(SchedOf(e)) # ParseError
CompParsable(e) == Truthy(CompOf(e)) /\ ParseDate(CompOf(e)) # ParseError
WindowStart == ParseDate(SchedOf(TheEntry)) - cfg.start
WindowEnd == ParseDate(SchedOf(TheEntry)) + cfg.end
IsScenario(rep) ==
    /\ ParseDate(SchedOf(TheEntry)) = DateOrdinal(2024, 6, 10)
    /\ cfg.start = 3 /\ cfg.end = 2 /\ cfg.repeat = rep

\* C3: an entry whose completion date is present and parsable is never due,
\* whatever the date, the window and the repeat interval.
CompletedNeverDue ==
    (pc = "evaluator" /\ due # <<>> /\ CompParsable(TheEntry)) => due[1] = FALSE

CompletedNeverDueWitness ==
    /\ pc = "evaluator" /\ due # <<>>
    /\ CompParsable(TheEntry) /\ SchedParsable(TheEntry)
    /\ cfg.repeat = 0
    /\ WindowStart <= clock /\ clock <= WindowEnd
    /\ due[1] = FALSE

\* C4: with repeatDays = 0, a parsable scheduled date and no completion date,
\* is_due is true exactly on the dates of [scheduled - start, scheduled + end],
\* both ends included; the entry of 2024-06-10 with start 3 and end 2 is due
\* on 06-07 .. 06-12 and on no other date.
DailyInsideWindow ==
    (pc = "evaluator" /\ due # <<>> /\ cfg.repeat = 0
        /\ SchedParsable(TheEntry) /\ ~Truthy(CompOf(TheEntry)))
    => /\ due[1] = (WindowStart <= clock /\ clock <= WindowEnd)
       /\ IsScenario(0) =>
            due[1] = (clock \in DateOrdinal(2024, 6, 7)..DateOrdinal(2024, 6, 12))

DailyInsideWindowWitness ==
    /\ pc = "evaluator" /\ due # <<>>
    /\ IsScenario(0) /\ ~Truthy(CompOf(TheEntry))
    /\ clock = DateOrdinal(2024, 6, 12)
    /\ due[1] = TRUE

\* C5: with repeatDays = k > 0, a parsable scheduled date and no completion
\* date, is_due is true exactly on start, start + k, start + 2k, ... up to end,
\* where start = scheduled - startDaysBefore and end = scheduled + endDaysAfter:
\* every due date lies in [start, end], start itself is due when the window is
\* not empty, and the entry of 2024-06-10 with start 3, end 2 and k = 2 is due
\* on 06-07, 06-09 and 06-11 only.
RepeatAnchoredAtStart ==
    (pc = "evaluator" /\ due # <<>> /\ cfg.repeat > 0
        /\ SchedParsable(TheEntry) /\ ~Truthy(CompOf(TheEntry)))
    => /\ due[1] = (/\ WindowStart <= clock /\ clock <= WindowEnd
                    /\ \E n \in 0..(2 * MaxSpan + 2) : clock = WindowStart + n * cfg.repeat)
       /\ due[1] => (WindowStart <= clock /\ clock <= WindowEnd)
       /\ (clock = WindowStart /\ WindowStart <= WindowEnd) => due[1]
       /\ IsScenario(2) =>
            due[1] = (clock \in {DateOrdinal(2024, 6, 7), DateOrdinal(2024, 6, 9),
                                 DateOrdinal(2024, 6, 11)})

RepeatAnchoredAtStartWitness ==
    /\ pc = "evaluator" /\ due # <<>>
    /\ IsScenario(2) /\ ~Truthy(CompOf(TheEntry))
    /\ clock = DateOrdinal(2024, 6, 11)
    /\ due[1] = TRUE

---------------------------------------------------------------------------
(* Ledger harness: the ledger operations, called in any order with any      *)
(* arguments, as the poll loop and the admin commands call them             *)

\* "all" is the argument of --reset that empties the table; it is also a text
\* an entry's id can be
LedgerKeys == {"k1", "k2", "all"}

LedgerDates == {isoformat(FirstDay + n) : n \in 0..MaxLedgerDays}

PruneDays == -1..MaxLedgerDays

InitLedger ==
    /\ clock = FirstDay
    /\ cfg \in {c \in Settings : c.run_once}
    /\ db = [table |-> FALSE, rows |-> {}]
    /\ pc = "ledger"
    /\ entries = <<>>
    /\ today = None
    /\ idx = 1
    /\ to_notify = <<>>
    /\ delivery = "none"
    /\ marked = {}
    /\ sent = NoSent
    /\ faulted = FALSE
    /\ runClean = FALSE
    /\ prevNotified = {}
    /\ writeFailed = {}
    /\ last = NoCall
    /\ pre = NoPre
    /\ due = <<>>

LedgerInitDb ==
    /\ pc = "ledger"
    /\ \E io \in BOOLEAN :
        /\ db' = init_db(db, io)
        /\ last' = [op |-> "init", key |-> None, ok |-> io]
    /\ pre' = [rows |-> db.rows, arg |-> None, ret |-> None]
    /\ UNCHANGED <<clock, cfg, pc, entries, today, idx, to_notify, delivery, marked,
                   sent, faulted, runClean, prevNotified, writeFailed, due>>

LedgerMark ==
    /\ pc = "ledger"
    /\ \E k \in LedgerKeys, when \in LedgerDates, io \in BOOLEAN :
        /\ db' = mark_notified(db, k, when, io)
        /\ last' = [op |-> "mark", key |-> k, ok |-> Usable(db, io)]
        /\ pre' = [rows |-> db.rows, arg |-> when, ret |-> None]
    /\ UNCHANGED <<clock, cfg, pc, entries, today, idx, to_notify, delivery, marked,
                   sent, faulted, runClean, prevNotified, writeFailed, due>>

LedgerGet ==
    /\ pc = "ledger"
    /\ \E k \in LedgerKeys, io \in BOOLEAN :
        /\ last' = [op |-> "get", key |-> k, ok |-> Usable(db, io)]
        /\ pre' = [rows |-> db.rows, arg |-> None, ret |-> get_last_notified(db, k, io)]
    /\ UNCHANGED <<clock, cfg, db, pc, entries, today, idx, to_notify, delivery, marked,
                   sent, faulted, runClean, prevNotified, writeFailed, due>>

LedgerReset ==
    /\ pc = "ledger"
    /\ \E k \in LedgerKeys, io \in BOOLEAN :
        /\ db' = reset_reminder(db, k, io).db
        /\ last' = [op |-> "reset", key |-> k, ok |-> Usable(db, io)]
        /\ pre' = [rows |-> db.rows, arg |-> None, ret |-> reset_reminder(db, k, io).ret]
    /\ UNCHANGED <<clock, cfg, pc, entries, today, idx, to_notify, delivery, marked,
                   sent, faulted, runClean, prevNotified, writeFailed, due>>

LedgerPrune ==
    /\ pc = "ledger"
    /\ \E n \in PruneDays, io \in BOOLEAN :
        /\ db' = prune_old_entries(db, n, clock, io).db
        /\ last' = [op |-> "prune", key |-> None, ok |-> (n <= 0 \/ Usable(db, io))]
        /\ pre' = [rows |-> db.rows, arg |-> n, ret |-> prune_old_entries(db, n, clock, io).ret]
    /\ UNCHANGED <<clock, cfg, pc, entries, today, idx, to_notify, delivery, marked,
                   sent, faulted, runClean, prevNotified, writeFailed, due>>

LedgerTick ==
    /\ pc = "ledger"
    /\ clock < FirstDay + MaxLedgerDays
    /\ clock' = clock + 1
    /\ last' = NoCall
    /\ pre' = NoPre
    /\ UNCHANGED <<cfg, db, pc, entries, today, idx, to_notify, delivery, marked,
                   sent, faulted, runClean, prevNotified, writeFailed, due>>

NextLedger ==
    \/ LedgerInitDb
    \/ LedgerMark
    \/ LedgerGet
    \/ LedgerReset
    \/ LedgerPrune
    \/ LedgerTick

SpecLedger == InitLedger /\ [][NextLedger]_vars

\* the calendar date a last_notified text stands for
DateOf(text) == ParseDate(text)

HasRow(rows, k) == \E r \in rows : r.id = k

\* C6: prune_old_entries(days) with days > 0 deletes exactly the records whose
\* lastNotified is on or before today - days, leaves every other record as it
\* was and returns the number of records it deleted; with days <= 0 (and when
\* the store call fails) it returns 0 and leaves the ledger unchanged.
PruneExact ==
    (pc = "ledger" /\ last.op = "prune")
    => IF pre.arg > 0 /\ last.ok
       THEN /\ db.rows = {r \in pre.rows : ~(DateOf(r.last_notified) <= clock - pre.arg)}
            /\ pre.ret = Cardinality({r \in pre.rows : DateOf(r.last_notified) <= clock - pre.arg})
       ELSE /\ db.rows = pre.rows
            /\ pre.ret = 0

PruneExactWitness ==
    /\ pc = "ledger" /\ last.op = "prune" /\ last.ok
    /\ pre.arg > 0
    /\ \E r \in pre.rows : DateOf(r.last_notified) = clock - pre.arg
    /\ \E r \in db.rows : DateOf(r.last_notified) = clock - pre.arg + 1
    /\ pre.ret >= 1

\* C7 as stated: after a successful mark_notified(key, date) the key reads
\* back that date; after a successful reset_reminder(key), for every key that
\* has a record, the key reads back absence and the records of the other keys
\* are unchanged; reset_reminder('all') leaves no record; a key without a
\* record reads back absence.
LedgerRoundTripAnyKey ==
    pc = "ledger" =>
    /\ (last.op = "mark" /\ last.ok) => get_last_notified(db, last.key, TRUE) = pre.arg
    /\ (last.op = "reset" /\ last.ok /\ HasRow(pre.rows, last.key))
        => /\ get_last_notified(db, last.key, TRUE) = None
           /\ \A r \in pre.rows : r.id # last.key => r \in db.rows
    /\ (last.op = "reset" /\ last.ok /\ last.key = "all") => db.rows = {}
    /\ (last.op = "get" /\ ~HasRow(db.rows, last.key)) => pre.ret = None

\* C7, amended: the same, the reset of one key being that of a key other than
\* 'all': an entry whose key is the text 'all' cannot be reset alone, its reset
\* empties the ledger.
LedgerRoundTrip ==
    pc = "ledger" =>
    /\ (last.op = "mark" /\ last.ok) => get_last_notified(db, last.key, TRUE) = pre.arg
    /\ (last.op = "reset" /\ last.ok /\ last.key # "all")
        => /\ get_last_notified(db, last.key, TRUE) = None
           /\ {r \in pre.rows : r.id # last.key} = db.rows
    /\ (last.op = "reset" /\ last.ok /\ last.key = "all") => db.rows = {}
    /\ (last.op = "get" /\ ~HasRow(db.rows, last.key)) => pre.ret = None

LedgerRoundTripWitness ==
    /\ pc = "ledger" /\ last.op = "mark" /\ last.ok
    /\ \E r \in pre.rows : r.id = last.key /\ r.last_notified # pre.arg
    /\ \E r \in db.rows : r.id # last.key
    /\ get_last_notified(db, last.key, TRUE) = pre.arg

\* C15: whatever the order in which mark_notified, reset_reminder and
\* prune_old_entries are called (each one atomic store call), the ledger never
\* holds two records of one key, every record it holds was either there before
\* the call or is the date the call, a mark_notified of that key, wrote, and a
\* mark_notified of a key that has a record replaces it instead of adding one.
LedgerIntegrity ==
    [][ /\ \A r1 \in db'.rows, r2 \in db'.rows : r1.id = r2.id => r1 = r2
        /\ \A r \in db'.rows :
            \/ r \in db.rows
            \/ /\ last'.op = "mark" /\ last'.ok
               /\ last'.key = r.id /\ pre'.arg = r.last_notified
        /\ (last'.op = "mark" /\ last'.ok)
            => {r.id : r \in db'.rows} = {r.id : r \in db.rows} \cup {last'.key}
      ]_vars

LedgerIntegrityWitness ==
    /\ pc = "ledger" /\ last.op = "mark" /\ last.ok
    /\ Cardinality(pre.rows) = Cardinality(LedgerKeys)
    /\ Cardinality(db.rows) = Cardinality(LedgerKeys)
    /\ db.rows # pre.rows

\* C17: prune_old_entries(days) with days >= 1 never deletes a record dated
\* the current UTC date, whatever calls came before it: after the call every
\* key recorded for the current date still reads back that date, so a poll
\* cycle of that date still finds last == today and skips the entry.
PruneKeepsToday ==
    (pc = "ledger" /\ last.op = "prune" /\ pre.arg >= 1)
    => \A r \in pre.rows :
        r.last_notified = isoformat(clock)
        => /\ r \in db.rows
           /\ AlreadyNotified(get_last_notified(db, r.id, TRUE), isoformat(clock))

PruneKeepsTodayWitness ==
    /\ pc = "ledger" /\ last.op = "prune" /\ last.ok
    /\ pre.arg = 1 /\ pre.ret >= 1
    /\ \E r \in pre.rows : r.last_notified = isoformat(clock) /\ r \in db.rows
    /\ \A r \in db.rows : DateOf(r.last_notified) >= clock

---------------------------------------------------------------------------
(* Key harness: two entries, listed by two poll cycles of one date with a   *)
(* working ledger; both are due. The first cycle notifies and records the   *)
(* first entry, the second cycle scans the second.                          *)

KeyNames == {"Oil", " Oil", "Filter"}

KeyDates == {isoformat(FirstDay + 1), isoformat(FirstDay + 2)}

KeyIds == {NoFields, "id" :> "k1", "ID" :> "k2"}

KeyEntries ==
    { i @@ [name |-> n, scheduledDate |-> d] : i \in KeyIds, n \in KeyNames, d \in KeyDates }

InitKey ==
    /\ clock = FirstDay + 1
    /\ cfg \in {c \in Settings : c.run_once}
    /\ db = [table |-> TRUE, rows |-> {}]
    /\ pc = "keys"
    /\ \E e1 \in KeyEntries, e2 \in KeyEntries : entries = <<e1, e2>>
    /\ today = isoformat(FirstDay + 1)
    /\ idx = 1
    /\ to_notify = <<>>
    /\ delivery = "none"
    /\ marked = {}
    /\ sent = NoSent
    /\ faulted = FALSE
    /\ runClean = FALSE
    /\ prevNotified = {}
    /\ writeFailed = {}
    /\ last = NoCall
    /\ pre = NoPre
    /\ due = <<>>

\* the cycle that lists entries[1]: key, read, append, notify, mark_notified
KeyFirstCycle ==
    /\ pc = "keys" /\ idx = 1
    /\ LET e   == entries[1]
           eid == EntryKey(e)
       IN  /\ ~AlreadyNotified(get_last_notified(db, eid, TRUE), today)
           /\ to_notify' = <<<<eid, e>>>>
           /\ db' = mark_notified(db, eid, today, TRUE)
           /\ marked' = {eid}
    /\ idx' = 2
    /\ UNCHANGED <<clock, cfg, pc, entries, today, delivery, sent, faulted, runClean,
                   prevNotified, writeFailed, last, pre, due>>

\* the later cycle that lists entries[2]: key, read, append unless last == today
KeySecondCycle ==
    /\ pc = "keys" /\ idx = 2
    /\ LET e   == entries[2]
           eid == EntryKey(e)
       IN  /\ to_notify' = IF AlreadyNotified(get_last_notified(db, eid, TRUE), today)
                           THEN to_notify
                           ELSE Append(to_notify, <<eid, e>>)
           /\ db' = IF AlreadyNotified(get_last_notified(db, eid, TRUE), today)
                    THEN db
                    ELSE mark_notified(db, eid, today, TRUE)
           /\ marked' = marked \cup {eid}
    /\ idx' = 3
    /\ UNCHANGED <<clock, cfg, pc, entries, today, delivery, sent, faulted, runClean,
                   prevNotified, writeFailed, last, pre, due>>

NextKey ==
    \/ KeyFirstCycle
    \/ KeySecondCycle

SpecKey == InitKey /\ [][NextKey]_vars

\* the id the data source gave an entry, None when it gave none
IdOf(e) == IF "id" \in DOMAIN e THEN e["id"] ELSE IF "ID" \in DOMAIN e THEN e["ID"] ELSE None

\* C14: the key an entry is read and written under is its id when it has one,
\* otherwise name + '::' + scheduledDate; an entry without an id that was
\* notified is not notified by a later cycle of the day when it is listed
\* unchanged; and two entries without ids that differ in name or in
\* scheduledDate have different keys, so that the second is notified too.
IdentityKey ==
    pc = "keys" =>
    /\ \A n \in 1..Len(to_notify) :
        LET e == to_notify[n][2]
        IN  /\ to_notify[n][1] =
                    IF IdOf(e) # None THEN IdOf(e) ELSE e.name \o "::" \o e.scheduledDate
            /\ \E r \in db.rows : r.id = to_notify[n][1] /\ r.last_notified = today
    /\ (idx = 3 /\ IdOf(entries[1]) = None /\ entries[2] = entries[1])
        => to_notify = <<<<EntryKey(entries[1]), entries[1]>>>>
    /\ (idx = 3 /\ IdOf(entries[1]) = None /\ IdOf(entries[2]) = None
            /\ (entries[1].name # entries[2].name
                    \/ entries[1].scheduledDate # entries[2].scheduledDate))
        => /\ Len(to_notify) = 2
           /\ to_notify[1][1] # to_notify[2][1]

---------------------------------------------------------------------------
(* The service: claims *)

\* C1: while the ledger reads and writes succeed and no manual reset is
\* issued, every identity key is handed to the notifier at most once on any
\* given UTC calendar date (sent counts, per key, the notify() calls made on
\* the current date that carried the key).
AtMostOncePerDay ==
    ~faulted => \A k \in DOMAIN sent : sent[k] <= 1

\* C2: when the poll cycle runs again on the same calendar date with the ledger
\* the previous run left (every ledger call succeeded, no reset in between),
\* no entry of the previous run's notify set is in this run's notify set.
SecondRunSkipsNotified ==
    \A n \in 1..Len(to_notify) : to_notify[n][2] \notin prevNotified

SecondRunSkipsNotifiedWitness ==
    /\ pc = "sleep" /\ runClean
    /\ prevNotified # {}
    /\ prevNotified \subseteq {entries[n] : n \in 1..Len(entries)}
    /\ \A e \in prevNotified : is_due(e, clock, cfg)
    /\ to_notify = <<>>

\* C8: within a poll cycle mark_notified(key, today) is called for a key only
\* after notify() was called with the notify set, whatever became of the
\* delivery; a call that succeeds leaves today as the key's record; and when
\* the cycle ends every key of a non-empty notify set has been handed to
\* mark_notified.
CommitAfterNotify ==
    [][ /\ (marked' \ marked # {})
            => /\ pc = "commit"
               /\ delivery \in {"sent", "failed"} /\ delivery' = delivery
               /\ marked' \subseteq KeysOf(to_notify)
               /\ \A k \in marked' \ marked :
                    last'.ok => get_last_notified(db', k, TRUE) = today
        /\ (pc' = "sleep" /\ to_notify' # <<>>)
            => /\ delivery' \in {"sent", "failed"}
               /\ KeysOf(to_notify') \subseteq marked'
      ]_vars

CommitAfterNotifyWitness ==
    /\ pc = "sleep" /\ delivery = "failed"
    /\ Len(to_notify) >= 2
    /\ Cardinality(KeysOf(to_notify)) >= 2
    /\ marked = KeysOf(to_notify)
    /\ \A k \in marked : get_last_notified(db, k, TRUE) = today

\* the service is in a poll cycle: it has fetched a batch and not yet gone to sleep
InPollCycle == pc \in {"filter", "scan", "notify", "commit", "sleep"}

\* C9: when the ledger cannot be created at start-up the process aborts: it
\* performs no poll cycle and sends no notification. (The table is missing
\* after the start-up exactly when the start-up's init_db failed, and every
\* init_db since.)
StartupInitFatal ==
    (pc # "start" /\ ~db.table)
    => /\ pc \notin {"loop", "done"}
       /\ ~InPollCycle
       /\ delivery = "none"

\* C10: when get_last_notified fails for the key of an entry that is due, the
\* entry is added to the cycle's notify set.
ReadFailureNotifies ==
    [][ (/\ pc = "scan" /\ idx' = idx + 1
         /\ is_due(entries[idx], clock, cfg)
         /\ last'.op = "get" /\ ~last'.ok)
        => to_notify' = Append(to_notify, <<EntryKey(entries[idx]), entries[idx]>>)
      ]_vars

ReadFailureNotifiesWitness ==
    /\ pc \in {"scan", "notify"}
    /\ last.op = "get" /\ ~last.ok
    /\ to_notify # <<>>
    /\ to_notify[Len(to_notify)][1] = last.key
    /\ \E r \in db.rows : r.id = last.key /\ r.last_notified = today

\* C11: a failed fetch (unreachable API, 401, another status, invalid JSON) is
\* an empty batch: main_loop goes on into filter_and_notify with no entry, the
\* cycle builds no notify set, calls no notifier, leaves every ledger record as
\* it was, and the loop goes on to its next cycle (with RUN_ONCE it ends as
\* after any other cycle). The process never stops on the failure itself.
FetchFailureIsEmptyBatch ==
    [][ /\ last'.op = "fetch"
            => /\ pc' \in {"filter", "sleep"}
               /\ entries' = <<>> /\ to_notify' = <<>> /\ delivery' = "none"
        /\ (last.op = "fetch" /\ pc' # pc)
            => /\ db'.rows = db.rows
               /\ sent' = sent /\ marked' = {} /\ delivery' = "none"
               /\ pc = "filter" => pc' = "sleep"
               /\ pc = "sleep" => pc' = (IF cfg.run_once THEN "done" ELSE "loop")
      ]_vars

FetchFailureIsEmptyBatchWitness ==
    /\ pc = "sleep" /\ last.op = "fetch"
    /\ ~cfg.run_once
    /\ today = isoformat(clock)
    /\ \E r \in db.rows : r.last_notified # today

\* C12: with RUN_ONCE set main_loop runs one whole cycle and ends: the loop is
\* entered once, from the start-up; it is left only at the end of a cycle that
\* ran filter_and_notify, after every key of a non-empty notify set was handed
\* to notify() and to mark_notified (never between the two); at the end of the
\* cycle the only step the loop can take is to end, and it starts no second
\* cycle. Without RUN_ONCE the loop never ends.
RunOnceEndsAfterOneCycle ==
    [][ /\ (pc' = "done" /\ pc # "done")
            => /\ pc = "sleep" /\ cfg.run_once
               /\ today # None
               /\ (to_notify # <<>>
                    => (delivery \in {"sent", "failed"} /\ KeysOf(to_notify) \subseteq marked))
        /\ (cfg.run_once /\ pc' = "loop" /\ pc # "loop") => pc = "start"
        /\ (cfg.run_once /\ pc = "sleep") => pc' \in {"sleep", "done"}
        /\ ~cfg.run_once => pc' # "done"
        /\ pc = "done" => pc' = "done"
      ]_vars

RunOnceEndsAfterOneCycleWitness ==
    /\ pc = "done" /\ cfg.run_once
    /\ Cardinality(db.rows) = 2
    /\ \A r \in db.rows : r.id \in DOMAIN sent /\ sent[r.id] = 1

\* C13 as stated: a mark_notified call that fails leaves the ledger as it was,
\* the commit loop goes on to the remaining keys and the cycle ends with every
\* key of the notify set handed to mark_notified; and in the next cycle of the
\* same date an entry whose key's write failed is put in the notify set again
\* whenever is_due still holds for it.
WriteFailureRetried ==
    [][ /\ (pc = "commit" /\ idx' = idx + 1 /\ ~last'.ok)
            => /\ db' = db
               /\ pc' \in {"commit", "sleep"}
               /\ marked' = marked \cup {to_notify[idx][1]}
        /\ (pc = "commit" /\ pc' = "sleep") => marked' = KeysOf(to_notify)
        /\ (/\ pc = "scan" /\ idx' = idx + 1
            /\ is_due(entries[idx], clock, cfg)
            /\ \E w \in writeFailed : w.key = EntryKey(entries[idx]))
            => to_notify' = Append(to_notify, <<EntryKey(entries[idx]), entries[idx]>>)
      ]_vars

\* C13, amended: the same, the entry being in the next cycle's notify set
\* unless the key's record already held the cycle's date when the write
\* failed (the entry was in the notify set because its ledger read had failed,
\* or the key was listed twice and its earlier write had succeeded): then the
\* unchanged record makes the next cycle skip the entry.
WriteFailureRetriedUnlessRecorded ==
    [][ /\ (pc = "commit" /\ idx' = idx + 1 /\ ~last'.ok)
            => /\ db' = db
               /\ pc' \in {"commit", "sleep"}
               /\ marked' = marked \cup {to_notify[idx][1]}
        /\ (pc = "commit" /\ pc' = "sleep") => marked' = KeysOf(to_notify)
        /\ (/\ pc = "scan" /\ idx' = idx + 1
            /\ is_due(entries[idx], clock, cfg)
            /\ \E w \in writeFailed : w.key = EntryKey(entries[idx]) /\ ~w.held)
            => to_notify' = Append(to_notify, <<EntryKey(entries[idx]), entries[idx]>>)
      ]_vars

WriteFailureRetriedUnlessRecordedWitness ==
    /\ pc = "notify"
    /\ Len(entries) = 2
    /\ \E w \in writeFailed :
        /\ ~w.held
        /\ KeysOf(to_notify) = {w.key}
        /\ \E n \in 1..2 :
            /\ EntryKey(entries[n]) # w.key
            /\ get_last_notified(db, EntryKey(entries[n]), TRUE) = today

\* the cycle has scanned its whole batch and has not yet written to the ledger
ScanDone ==
    \/ pc = "notify"
    \/ pc = "sleep" /\ today # None /\ entries # <<>> /\ to_notify = <<>>

\* the reminder window of an entry under the service's settings
InEntryWindow(e, d) ==
    /\ ParseDate(SchedOf(e)) - cfg.start <= d
    /\ d <= ParseDate(SchedOf(e)) + cfg.end

\* C16: with repeatDays = 0 and a working ledger (no failed call, no reset),
\* when a cycle of date `today` has scanned its batch, every listed entry with
\* a parsable scheduled date and no completion date is in the notify set only
\* if today lies in [start, end]; it is in the notify set if today lies in
\* [start, end] and no cycle has recorded it for today yet (the first cycle
\* of the day), and it is not in it once today is recorded (no later cycle).
RetryCoverage ==
    (~faulted /\ cfg.repeat = 0 /\ ScanDone)
    => \A n \in 1..Len(entries) :
        LET e        == entries[n]
            d        == ParseDate(today)
            recorded == get_last_notified(db, EntryKey(e), TRUE) = today
        IN  (SchedParsable(e) /\ ~Truthy(CompOf(e)))
            => /\ e \in EntriesOf(to_notify) => InEntryWindow(e, d)
               /\ (InEntryWindow(e, d) /\ ~recorded) => e \in EntriesOf(to_notify)
               /\ recorded => e \notin EntriesOf(to_notify)

\* C18: in a poll cycle the date compared with the ledger (and later written
\* to it) is the date is_due evaluated the entry on, and every record the
\* cycle writes carries a date on which is_due holds for the entry, also when
\* the calendar date advances while the cycle runs.
SingleToday ==
    [][ /\ (pc = "scan" /\ idx' = idx + 1 /\ is_due(entries[idx], clock, cfg))
            => today = isoformat(clock)
        /\ (pc = "commit" /\ idx' = idx + 1 /\ last'.ok)
            => \E r \in db'.rows :
                /\ r.id = to_notify[idx][1]
                /\ r.last_notified = today
                /\ is_due(to_notify[idx][2], ParseDate(r.last_notified), cfg)
      ]_vars

\* a step of filter_and_notify (not of the clock, not of an admin command)
CycleStep == pc \in {"filter", "scan", "notify", "commit"} /\ (pc' # pc \/ idx' # idx)

\* C19: a step of filter_and_notify adds or replaces a ledger record only in
\* its commit loop, for the key of the notify set it is at, with today as the
\* date (and does so whenever the write succeeds), and removes none; an
\* entry that is not due, or whose record read back today, is not added to
\* the notify set, and the keys of the notify set are keys of the batch; a
\* cycle whose notify set is empty ends without calling notify() and without
\* touching a record, and notify() is only called with a non-empty set.
CycleFrame ==
    [][ /\ KeysOf(to_notify') \subseteq {EntryKey(entries'[n]) : n \in 1..Len(entries')}
        /\ CycleStep
            => /\ \A r \in db'.rows \ db.rows :
                    pc = "commit" /\ r.id = to_notify[idx][1] /\ r.last_notified = today
               /\ \A r \in db.rows \ db'.rows :
                    pc = "commit" /\ r.id = to_notify[idx][1]
               /\ (pc = "commit" /\ last'.ok)
                    => [id |-> to_notify[idx][1], last_notified |-> today] \in db'.rows
               /\ (/\ pc = "scan"
                   /\ \/ ~is_due(entries[idx], clock, cfg)
                      \/ /\ last'.op = "get" /\ last'.ok
                         /\ get_last_notified(db, EntryKey(entries[idx]), TRUE) = today)
                    => to_notify' = to_notify
               /\ (pc \in {"filter", "scan"} /\ pc' = "sleep")
                    => /\ to_notify' = <<>> /\ delivery' = "none"
                       /\ sent' = sent /\ db'.rows = db.rows
               /\ pc = "notify" => to_notify # <<>>
      ]_vars

CycleFrameWitness ==
    /\ pc = "sleep" /\ delivery = "sent"
    /\ marked = KeysOf(to_notify) /\ marked # {}
    /\ \A k \in marked : get_last_notified(db, k, TRUE) = today
    /\ \E r \in db.rows :
        /\ r.id \notin {EntryKey(entries[n]) : n \in 1..Len(entries)}
        /\ r.last_notified # today

=============================================================================
